---- MODULE Spec2Model ----
(***************************************************************************)
(* A model of rolexhound.c: a single-path inotify watchdog that turns      *)
(* every kernel event record into a desktop notification.                  *)
(*                                                                         *)
(* The process is one thread (main) plus the asynchronous signal handler   *)
(* sig_shutdown_handler, which runs on top of main (and on top of itself   *)
(* when a different termination signal arrives while it is running).       *)
(* signal() is modelled with the BSD semantics glibc gives it: the handler *)
(* stays installed and only the signal being handled is blocked while its  *)
(* handler runs.                                                           *)
(***************************************************************************)
EXTENDS Integers, Sequences, FiniteSets, TLC

(***************************************************************************)
(* Bounds of the model.                                                    *)
(***************************************************************************)
\* most records the kernel places in one read
MaxRecords == 2

\* the longest path on the command line of the runs of the display-name step
MaxPathLen == 6

(***************************************************************************)
(* Program constants.                                                      *)
(***************************************************************************)
EXT_SUCCESS == 0
EXT_ERR_TOO_FEW_ARGS == 1
EXT_ERR_INIT_INOTIFY == 2
EXT_ERR_ADD_WATCH == 3
EXT_ERR_BASE_PATH_NULL == 4
EXT_ERR_READ_INOTIFY == 5
EXT_ERR_INIT_LIBNOTIFY == 6

\* <sys/inotify.h> event bits used by the program
IN_ACCESS == 1
IN_MODIFY == 2
IN_CLOSE_WRITE == 8
IN_CREATE == 256
IN_DELETE == 512
IN_MOVE_SELF == 2048
\* event bits the kernel raises that the program does not look at
IN_Q_OVERFLOW == 16384
IN_IGNORED == 32768

\* sizeof(struct inotify_event): wd, mask, cookie, len, four bytes each
HeaderSize == 16

\* the value of an unset descriptor, and of a failed system call
InvalidFd == -1
\* the descriptors inotify_init and inotify_add_watch return on success
QueueFd == 3
WatchWd == 1

\* a process that has not ended has no exit status yet
Running == -1
\* the status of a process ended by a signal's default action
Killed == 128

\* the null pointer, as a message and as a path
NULL == "NULL"
NullPath == <<"NULL">>

SIGABRT == 6
SIGINT == 2
SIGTERM == 15
\* the signal of a write through a null pointer; no handler is installed
\* for it
SIGSEGV == 11

Signals == {SIGABRT, SIGINT, SIGTERM}

(***************************************************************************)
(* The state of the process.                                               *)
(***************************************************************************)
VARIABLES
    argc,                \* main's argc
    argv1,               \* argv[1], a sequence of characters
    pc,                  \* the statement main is at
    exitStatus,          \* the status the process ended with
    IeventQueue,         \* global: the inotify descriptor
    IeventDescriptor,    \* global: the watch descriptor
    sigHandlers,         \* the signals sig_shutdown_handler is installed for
    sigBlocked,          \* the signals whose handler has started
    handlerPc,           \* the statement the innermost handler is at
    ownRmWatchCalls,     \* inotify_rm_watch calls of the innermost handler
    ownCloseCalls,       \* close calls of the innermost handler
    basePath,            \* the title of every notification
    buffer,              \* the records the last read left in the buffer
    readLength,          \* what the last read returned
    buffPointer,         \* the cursor of the record walk, as an offset
    watchEvent,          \* the header the cursor was last cast to
    notificationMessage, \* the message chosen for the current record
    recordsVisited,      \* iterations of the walk since the last read
    sinkCalls,           \* notify_notification_new calls since the last read
    sinkFailures,        \* sink calls that have failed since the last read
    callResult,          \* the value inotify_init or inotify_add_watch returned
    notifyInitCalls,     \* notify_init calls made
    inotifyInitCalls,    \* inotify_init calls made
    addWatchCalls,       \* inotify_add_watch calls made
    rmWatchCalls,        \* inotify_rm_watch calls made
    rmWatchErrors,       \* of which reported an error
    closeCalls,          \* close calls made on the queue
    staleHandleUse       \* a release was attempted on a released handle

vars == << argc, argv1, pc, exitStatus, IeventQueue, IeventDescriptor,
           sigHandlers, sigBlocked, handlerPc, ownRmWatchCalls, ownCloseCalls,
           basePath, buffer, readLength, buffPointer,
           watchEvent, notificationMessage, recordsVisited, sinkCalls,
           sinkFailures, callResult, notifyInitCalls, inotifyInitCalls,
           addWatchCalls,
           rmWatchCalls,
           rmWatchErrors, closeCalls, staleHandleUse >>

startupVars == << argc, argv1, basePath >>
globalVars == << IeventQueue, IeventDescriptor >>
handlerVars == << sigBlocked, handlerPc, ownRmWatchCalls, ownCloseCalls >>
loopVars == << buffer, readLength, buffPointer, watchEvent,
                  notificationMessage, recordsVisited, sinkCalls, sinkFailures >>
acquireVars == << callResult, notifyInitCalls, inotifyInitCalls,
                 addWatchCalls >>
releaseVars == << rmWatchCalls, rmWatchErrors, closeCalls, staleHandleUse >>

(***************************************************************************)
(* watchEvent->mask & bit, on unsigned 32-bit values.                      *)
(***************************************************************************)
RECURSIVE BitAnd(_, _)
BitAnd(a, b) ==
    IF a = 0 \/ b = 0 THEN 0
    ELSE (IF a % 2 = 1 /\ b % 2 = 1 THEN 1 ELSE 0) + 2 * BitAnd(a \div 2, b \div 2)

watch_flags ==
    IN_CREATE + IN_DELETE + IN_ACCESS + IN_CLOSE_WRITE + IN_MODIFY + IN_MOVE_SELF

(***************************************************************************)
(* The chain of independent if statements of the loop body: every          *)
(* statement whose bit is set overwrites notificationMessage.              *)
(***************************************************************************)
IfBit(mask, bit, message, previous) ==
    IF BitAnd(mask, bit) # 0 THEN message ELSE previous

\* the chain without line 150's reset: the previous record's message stays
ClassifyStale(mask) ==
    LET m0 == notificationMessage
        m1 == IfBit(mask, IN_CREATE, "File created.\n", m0)
        m2 == IfBit(mask, IN_DELETE, "File deleted.\n", m1)
        m3 == IfBit(mask, IN_ACCESS, "File accessed.\n", m2)
        m4 == IfBit(mask, IN_CLOSE_WRITE, "File written and closed.\n", m3)
        m5 == IfBit(mask, IN_MODIFY, "File modified.\n", m4)
        m6 == IfBit(mask, IN_MOVE_SELF, "File moved.\n", m5)
    IN  m6

Classify(mask) ==
    LET m0 == NULL
        m1 == IfBit(mask, IN_CREATE, "File created.\n", m0)
        m2 == IfBit(mask, IN_DELETE, "File deleted.\n", m1)
        m3 == IfBit(mask, IN_ACCESS, "File accessed.\n", m2)
        m4 == IfBit(mask, IN_CLOSE_WRITE, "File written and closed.\n", m3)
        m5 == IfBit(mask, IN_MODIFY, "File modified.\n", m4)
        m6 == IfBit(mask, IN_MOVE_SELF, "File moved.\n", m5)
    IN  m6

\* the mask field of a header that read cut before the end of the field: the
\* walk reads bytes that read did not write.  Their value can be any of the
\* 2^32 values of the field; it is not computed, and StaleMask stands for
\* whichever value is there
StaleMask == -1

\* the messages of the six if statements
Messages ==
    { "File created.\n", "File deleted.\n", "File accessed.\n",
      "File written and closed.\n", "File modified.\n", "File moved.\n" }

\* what lines 150-175 can leave in notificationMessage for the mask the walk
\* reads: on a stale mask any of the six messages, or NULL
Classified(mask) ==
    IF mask = StaleMask THEN Messages \cup {NULL}
    ELSE { Classify(mask) }

(***************************************************************************)
(* strtok(basePath, "/") in a loop: basePath ends as the last non-empty    *)
(* segment of the copy, or stays the copy itself when there is no token.   *)
(***************************************************************************)
\* a split at every separator that keeps empty segments: the segment after
\* the last separator, empty or not
RECURSIVE LastTokenKeepsEmpty(_, _, _)
LastTokenKeepsEmpty(path, cur, last) ==
    IF path = <<>> THEN cur
    ELSE IF Head(path) = "/"
         THEN LastTokenKeepsEmpty(Tail(path), <<>>, cur)
         ELSE LastTokenKeepsEmpty(Tail(path), Append(cur, Head(path)), last)

RECURSIVE LastToken(_, _, _)
\* path: the rest of the string, cur: the token being scanned, last: the
\* last token strtok has returned (the value of basePath)
LastToken(path, cur, last) ==
    IF path = <<>> THEN (IF cur = <<>> THEN last ELSE cur)
    ELSE IF Head(path) = "/"
         THEN LastToken(Tail(path), <<>>, IF cur = <<>> THEN last ELSE cur)
         ELSE LastToken(Tail(path), Append(cur, Head(path)), last)

\* the copy of the path left as it is
BasePathOfWhole(path) == path

BasePathOf(path) == LastToken(path, <<>>, path)

(***************************************************************************)
(* The buffer as the record walk sees it: a chain of record headers, each  *)
(* followed by len bytes of name.                                          *)
(***************************************************************************)
\* the len field of a header that read cut before its last byte: the walk
\* reads bytes that read did not write, left there by the stack or by an
\* earlier read.  Their value can be any of the 2^32 values of the field (109
\* after a name ending in "m", 7302765 after "mno"); it is not computed, and
\* StaleLen stands for whichever value is there
StaleLen == -1

\* the bytes of a record that lie in the chain: the header, and the name
\* unless the header itself is cut
RecordSize(r) == HeaderSize + (IF r.len = StaleLen THEN 0 ELSE r.len)

RECURSIVE TotalSize(_)
TotalSize(records) ==
    IF records = <<>> THEN 0
    ELSE RecordSize(Head(records)) + TotalSize(Tail(records))

\* the offset at which record i (from 1) of the chain starts
OffsetOf(records, i) == TotalSize(SubSeq(records, 1, i - 1))

\* the index of the record whose header starts at byte offset
RecordAt(records, offset) ==
    CHOOSE i \in 1..Len(records) : OffsetOf(records, i) = offset

(***************************************************************************)
(* Inputs of the model.                                                    *)
(***************************************************************************)
\* the path on the command line of the runs of the whole program
Paths == { <<"/", "a", "/", "b">> }

\* the sum of a set of distinct bits
RECURSIVE BitsOf(_)
BitsOf(bits) ==
    IF bits = {} THEN 0
    ELSE LET bit == CHOOSE x \in bits : TRUE
         IN  bit + BitsOf(bits \ {bit})

\* the event bits of a record
EventBits == { IN_ACCESS, IN_MODIFY, IN_CLOSE_WRITE, IN_CREATE, IN_DELETE,
               IN_MOVE_SELF, IN_Q_OVERFLOW, IN_IGNORED }

\* every event mask over these bits
AllMasks == { BitsOf(bits) : bits \in SUBSET EventBits }

\* the event masks of the records in the runs of the daemon loop
Masks == { IN_CREATE, IN_DELETE, IN_MODIFY, IN_IGNORED }

\* the event masks of the records in the runs with signals
FewMasks == { IN_MODIFY, IN_IGNORED }

\* the name lengths of a record: no name, or one padded name
NameLens == { 0, HeaderSize }

Records(masks) == [mask : masks, len : NameLens]

\* the record chains of at most MaxRecords records
Buffers(masks) == UNION { [1..n -> Records(masks)] : n \in 0..MaxRecords }

\* the offsets in a header of the first byte of the mask field and of the
\* byte after it (wd and mask are four bytes each)
MaskStart == 4
MaskEnd == 8

\* the lengths read returns for a chain whose last record is cut short:
\* in the header before the mask field, in the header right after it, or in
\* the middle of the name
TruncatedLengths(records) ==
    IF records = <<>> THEN {}
    ELSE LET start == OffsetOf(records, Len(records))
             last  == records[Len(records)]
         IN  { start + MaskStart, start + MaskEnd } \cup
             ( IF last.len = 0 THEN {}
               ELSE { start + HeaderSize + last.len \div 2 } )

\* what read can return, as pairs of the records left in the buffer and the
\* length returned: whole records, or the last record cut short
WholeReads(masks) ==
    { << records, TotalSize(records) >> : records \in Buffers(masks) }

\* the records as the walk sees them after read returned length bytes: the
\* len field of a header cut in its middle is stale, whatever name the
\* record had, and so is the mask of a header cut before the end of its
\* mask field
SeenRecords(records, length) ==
    LET start == OffsetOf(records, Len(records))
        last  == records[Len(records)]
    IN  IF length < start + MaskEnd
        THEN [records EXCEPT ![Len(records)] =
                                [mask |-> StaleMask, len |-> StaleLen]]
        ELSE IF length < start + HeaderSize
        THEN [records EXCEPT ![Len(records)] =
                                [mask |-> last.mask, len |-> StaleLen]]
        ELSE records

CutReads(masks) ==
    UNION { { << SeenRecords(records, length), length >> :
                 length \in TruncatedLengths(records) } :
            records \in Buffers(masks) }

ManyWholeReads == WholeReads(Masks)
ManyCutReads == CutReads(Masks)
FewWholeReads == WholeReads(FewMasks)
FewCutReads == CutReads(FewMasks)

\* the value of watchEvent before the first record is dereferenced
NoEvent == [mask |-> 0, len |-> 0]

\* the values of main's locals and of the globals at their declarations
InitLocals ==
    /\ pc = "argc_check"
    /\ exitStatus = Running
    /\ IeventQueue = InvalidFd
    /\ IeventDescriptor = InvalidFd
    /\ sigHandlers = {}
    /\ sigBlocked = {}
    /\ handlerPc = "none"
    /\ ownRmWatchCalls = 0
    /\ ownCloseCalls = 0
    /\ basePath = NullPath
    /\ buffer = <<>>
    /\ readLength = 0
    /\ buffPointer = 0
    /\ watchEvent = NoEvent
    /\ notificationMessage = NULL
    /\ recordsVisited = 0
    /\ sinkCalls = <<>>
    /\ sinkFailures = 0
    /\ callResult = InvalidFd
    /\ notifyInitCalls = 0
    /\ inotifyInitCalls = 0
    /\ addWatchCalls = 0
    /\ rmWatchCalls = 0
    /\ rmWatchErrors = 0
    /\ closeCalls = 0
    /\ staleHandleUse = FALSE

Init ==
    /\ argc \in {1, 2}
    /\ argv1 \in (IF argc < 2 THEN {NullPath} ELSE Paths)
    /\ InitLocals

\* main runs only while it has not exited and no handler is on top of it
MainAt(label) == pc = label /\ handlerPc = "none"

\* the process ends with status: exit(status) has run to its end, or the
\* default action of a signal has ended the process
Exit(status) ==
    /\ pc' = "exited"
    /\ exitStatus' = status

(***************************************************************************)
(* Startup, lines 82-129.                                                  *)
(***************************************************************************)
\* the three signal() calls moved to the top of main
ArgcCheckRegistersFirst ==
    /\ MainAt("argc_check")
    /\ sigHandlers' = Signals
    /\ pc' = IF argc < 2 THEN "exit_usage" ELSE "notify_init"
    /\ UNCHANGED << startupVars, exitStatus, globalVars, handlerVars,
                    loopVars, acquireVars, releaseVars >>

\* the start of main without the test of argc
ArgcCheckSkipped ==
    /\ MainAt("argc_check")
    /\ pc' = "notify_init"
    /\ UNCHANGED << exitStatus, startupVars, globalVars, sigHandlers,
                    handlerVars, loopVars, acquireVars, releaseVars >>

\* if (argc < 2), line 83: to the error path of lines 84-85 or on
ArgcCheck ==
    /\ MainAt("argc_check")
    /\ pc' = IF argc < 2 THEN "exit_usage" ELSE "notify_init"
    /\ UNCHANGED << startupVars, exitStatus, globalVars, sigHandlers,
                    handlerVars, loopVars, acquireVars, releaseVars >>

\* notifyInitStatus = notify_init(ProgramTitle) and its test, lines 88-89
NotifyInit ==
    /\ MainAt("notify_init")
    /\ \E notifyInitStatus \in BOOLEAN :
          pc' = IF ~notifyInitStatus THEN "exit_libnotify" ELSE "inotify_init"
    /\ notifyInitCalls' = notifyInitCalls + 1
    /\ UNCHANGED << startupVars, exitStatus, globalVars, sigHandlers,
                    handlerVars, loopVars, callResult, inotifyInitCalls,
                    addWatchCalls, releaseVars >>

\* the call inotify_init() of line 95 returns
InotifyInit ==
    /\ MainAt("inotify_init")
    /\ callResult' \in {InvalidFd, QueueFd}
    /\ inotifyInitCalls' = inotifyInitCalls + 1
    /\ pc' = "inotify_store"
    /\ UNCHANGED << startupVars, exitStatus, globalVars, notifyInitCalls,
                    addWatchCalls, sigHandlers, handlerVars, loopVars,
                    releaseVars >>

\* IeventQueue = <the value returned> and its test, lines 95-96
InotifyStore ==
    /\ MainAt("inotify_store")
    /\ IeventQueue' = callResult
    /\ pc' = IF callResult = InvalidFd THEN "exit_inotify" ELSE "add_watch"
    /\ UNCHANGED << startupVars, exitStatus, IeventDescriptor, sigHandlers,
                    handlerVars, loopVars, acquireVars, releaseVars >>

\* the call inotify_add_watch(IeventQueue, argv[1], watch_flags) of line 102
\* returns
AddWatch ==
    /\ MainAt("add_watch")
    /\ callResult' \in {InvalidFd, WatchWd}
    /\ addWatchCalls' = addWatchCalls + 1
    /\ pc' = "add_watch_store"
    /\ UNCHANGED << startupVars, exitStatus, globalVars, notifyInitCalls,
                    inotifyInitCalls, sigHandlers, handlerVars, loopVars,
                    releaseVars >>

\* the registration with its result not tested
AddWatchStoreUnchecked ==
    /\ MainAt("add_watch_store")
    /\ IeventDescriptor' = callResult
    /\ pc' = "signal_abrt"
    /\ UNCHANGED << startupVars, exitStatus, IeventQueue, sigHandlers,
                    handlerVars, loopVars, acquireVars, releaseVars >>

\* IeventDescriptor = <the value returned> and its test, lines 102-103
AddWatchStore ==
    /\ MainAt("add_watch_store")
    /\ IeventDescriptor' = callResult
    /\ pc' = IF callResult = InvalidFd THEN "exit_watch" ELSE "signal_abrt"
    /\ UNCHANGED << startupVars, exitStatus, IeventQueue, sigHandlers,
                    handlerVars, loopVars, acquireVars, releaseVars >>

\* signal(sig, sig_shutdown_handler)
Register(label, sig, next) ==
    /\ MainAt(label)
    /\ sigHandlers' = sigHandlers \cup {sig}
    /\ pc' = next
    /\ UNCHANGED << startupVars, exitStatus, globalVars, handlerVars, loopVars,
                    acquireVars, releaseVars >>

SignalAbrt == Register("signal_abrt", SIGABRT, "signal_int")
SignalInt == Register("signal_int", SIGINT, "signal_term")
SignalTerm == Register("signal_term", SIGTERM, "base_path")

\* lines 117-126: malloc, strcpy, the strtok loop and the test of basePath.
\* The result of malloc is not tested: when it is NULL, strcpy writes through
\* a null pointer and the process is ended by SIGSEGV.
BasePath ==
    /\ MainAt("base_path")
    /\ \E copy \in {NULL, "copy"} :
          IF copy = NULL
          THEN /\ Exit(Killed + SIGSEGV)
               /\ UNCHANGED basePath
          ELSE /\ basePath' = BasePathOf(argv1)
               /\ pc' = IF basePath' = NullPath THEN "exit_base" ELSE "read"
               /\ UNCHANGED exitStatus
    /\ UNCHANGED << argc, argv1, globalVars, sigHandlers, handlerVars, loopVars,
                    acquireVars, releaseVars >>

\* the error paths of main: the fprintf and the exit statement that follows
\* it, and the status of that exit, lines 84-85, 91-92, 98-99, 105-106,
\* 127-128 and 139-140
ExitAt ==
    [ exit_usage     |-> EXT_ERR_TOO_FEW_ARGS,
      exit_libnotify |-> EXT_ERR_INIT_LIBNOTIFY,
      exit_inotify   |-> EXT_ERR_INIT_INOTIFY,
      exit_watch     |-> EXT_ERR_ADD_WATCH,
      exit_base      |-> EXT_ERR_BASE_PATH_NULL,
      exit_read      |-> EXT_ERR_READ_INOTIFY ]

ExitLabels == DOMAIN ExitAt

\* exit(status) of an error path has run to its end.  Until then main is in
\* the fprintf or inside exit, which flushes stdout and may block, and a
\* signal is delivered as at any other statement.
ExitCall ==
    /\ \E label \in ExitLabels :
          /\ MainAt(label)
          /\ Exit(ExitAt[label])
    /\ UNCHANGED << startupVars, globalVars, sigHandlers, handlerVars,
                    loopVars, acquireVars, releaseVars >>

(***************************************************************************)
(* The daemon loop, lines 132-189.                                         *)
(***************************************************************************)
\* an increment that forgets the name: buffPointer += sizeof(...)
AdvanceHeaderOnly(pointer, event) == pointer + HeaderSize

\* the cursor after an increment by a stale len: an address past the header,
\* and so past the bytes read returned; which one is not computed
PastRead == -1

\* the for statement's test: buffPointer < buffer + readLength
Inside(pointer, length) == pointer # PastRead /\ pointer < length

\* the for statement's increment: buffPointer += sizeof(...) + watchEvent->len
Advance(pointer, event) ==
    IF event.len = StaleLen THEN PastRead
    ELSE pointer + HeaderSize + event.len

\* a continue statement, or the end of the loop body: to the increment of
\* the for statement
Continue ==
    /\ pc' = "advance"
    /\ UNCHANGED << buffPointer, exitStatus >>

\* the call with its first two arguments exchanged
SinkCallSwapped(title, message) == [title |-> message, message |-> title]

\* the arguments notify_notification_new is called with
SinkCall(title, message) == [title |-> title, message |-> message]

\* read returned length bytes holding records; the for statement starts
StartWalk(records, length) ==
    /\ buffer' = records
    /\ readLength' = length
    /\ buffPointer' = 0
    /\ recordsVisited' = 0
    /\ sinkCalls' = <<>>
    /\ sinkFailures' = 0
    /\ pc' = "walk"
    /\ UNCHANGED << startupVars, exitStatus, globalVars, sigHandlers,
                    handlerVars, watchEvent, notificationMessage,
                    acquireVars, releaseVars >>

\* read returns one of reads
Read(reads) ==
    /\ MainAt("read")
    /\ \E r \in reads : StartWalk(r[1], r[2])

\* read returns whole records
ReadRecords == Read(FewWholeReads)
\* read returns a length that cuts the last record short
ReadTruncated == Read(FewCutReads)

ReadManyRecords == Read(ManyWholeReads)
ReadManyTruncated == Read(ManyCutReads)

\* read returns -1: to the error path of lines 139-140
ReadFails ==
    /\ MainAt("read")
    /\ readLength' = InvalidFd
    /\ pc' = "exit_read"
    /\ UNCHANGED << startupVars, exitStatus, globalVars, sigHandlers,
                    handlerVars, buffer,
                    buffPointer, watchEvent, notificationMessage,
                    recordsVisited, sinkCalls, sinkFailures, acquireVars,
                    releaseVars >>

\* a program that ends after the first batch of records
WalkDoneExits ==
    /\ MainAt("walk")
    /\ ~Inside(buffPointer, readLength)
    /\ Exit(EXT_SUCCESS)
    /\ UNCHANGED << startupVars, globalVars, sigHandlers, handlerVars,
                    loopVars, acquireVars, releaseVars >>

\* a loop that registers the watch again before each read
WalkDoneRewatches ==
    /\ MainAt("walk")
    /\ ~Inside(buffPointer, readLength)
    /\ pc' = "add_watch"
    /\ UNCHANGED << startupVars, exitStatus, globalVars, sigHandlers,
                    handlerVars, loopVars, acquireVars, releaseVars >>

\* the for statement's test fails: back to the while loop's read
WalkDone ==
    /\ MainAt("walk")
    /\ ~Inside(buffPointer, readLength)
    /\ pc' = "read"
    /\ UNCHANGED << startupVars, exitStatus, globalVars, sigHandlers,
                    handlerVars, loopVars, acquireVars, releaseVars >>

\* the for statement's test holds: lines 150-179
ClassifyRecord ==
    /\ MainAt("walk")
    /\ Inside(buffPointer, readLength)
    /\ watchEvent' = buffer[RecordAt(buffer, buffPointer)]
    /\ notificationMessage' \in Classified(watchEvent'.mask)
    /\ recordsVisited' = recordsVisited + 1
    /\ IF notificationMessage' = NULL
       THEN Continue
       ELSE /\ pc' = "notify_new"
            /\ UNCHANGED << buffPointer, exitStatus >>
    /\ UNCHANGED << startupVars, globalVars, sigHandlers, handlerVars, buffer,
                    readLength, sinkCalls, sinkFailures, acquireVars,
                    releaseVars >>

\* notify_notification_new and the test of its result, lines 181-182
NotifyNew ==
    /\ MainAt("notify_new")
    /\ sinkCalls' = Append(sinkCalls, SinkCall(basePath, notificationMessage))
    /\ \E notifyHandle \in {NULL, "handle"} :
          /\ sinkFailures' = sinkFailures + (IF notifyHandle = NULL THEN 1 ELSE 0)
          /\ pc' = IF notifyHandle = NULL THEN "null_handle" ELSE "notify_show"
    /\ UNCHANGED << startupVars, exitStatus, globalVars, sigHandlers,
                    handlerVars, buffer, readLength, buffPointer, watchEvent,
                    notificationMessage, recordsVisited, acquireVars,
                    releaseVars >>

\* a null handle treated as fatal
NullHandleAborts ==
    /\ MainAt("null_handle")
    /\ Exit(EXT_ERR_INIT_LIBNOTIFY)
    /\ UNCHANGED << startupVars, globalVars, sigHandlers, handlerVars,
                    loopVars, acquireVars, releaseVars >>

\* lines 183-184: a null handle is reported on stderr, then continue
NullHandle ==
    /\ MainAt("null_handle")
    /\ Continue
    /\ UNCHANGED << startupVars, globalVars, sigHandlers, handlerVars, buffer,
                    readLength, watchEvent, notificationMessage,
                    recordsVisited, sinkCalls, sinkFailures, acquireVars,
                    releaseVars >>

\* notify_notification_set_urgency and notify_notification_show,
\* lines 186-187; the result of show is not looked at, and the body ends
NotifyShow ==
    /\ MainAt("notify_show")
    /\ \E shown \in BOOLEAN :
          sinkFailures' = sinkFailures + (IF shown THEN 0 ELSE 1)
    /\ Continue
    /\ UNCHANGED << startupVars, globalVars, sigHandlers, handlerVars, buffer,
                    readLength, watchEvent, notificationMessage,
                    recordsVisited, sinkCalls, acquireVars, releaseVars >>

\* line 148: the increment of the for statement, on the header the body
\* dereferenced; the test follows
ForIncrement ==
    /\ MainAt("advance")
    /\ buffPointer' = Advance(buffPointer, watchEvent)
    /\ pc' = "walk"
    /\ UNCHANGED << startupVars, exitStatus, globalVars, sigHandlers,
                    handlerVars, buffer, readLength, watchEvent,
                    notificationMessage, recordsVisited, sinkCalls,
                    sinkFailures, acquireVars, releaseVars >>

(***************************************************************************)
(* Signals and sig_shutdown_handler, lines 44-60.                          *)
(*                                                                         *)
(* The handler never returns: it ends in exit.  An invocation interrupted  *)
(* by another signal is therefore never resumed, and the state keeps only  *)
(* the innermost invocation's position (handlerPc) and the signals whose   *)
(* handlers have started (sigBlocked), each blocked from then on.          *)
(***************************************************************************)
\* the statement the innermost running handler is at
HandlerAt(label) == pc # "exited" /\ handlerPc = label

\* a termination signal arrives: its handler starts, or, with no handler
\* installed, the default action ends the process
Deliver(sig) ==
    /\ pc # "exited"
    /\ sig \notin sigBlocked
    /\ IF sig \in sigHandlers
       THEN /\ sigBlocked' = sigBlocked \cup {sig}
            /\ handlerPc' = "rm_watch"
            /\ ownRmWatchCalls' = 0
            /\ ownCloseCalls' = 0
            /\ UNCHANGED << pc, exitStatus >>
       ELSE /\ Exit(Killed + sig)
            /\ UNCHANGED handlerVars
    /\ UNCHANGED << startupVars, globalVars, sigHandlers, loopVars,
                    acquireVars, releaseVars >>

Signal == \E sig \in Signals : Deliver(sig)

\* the call with an error taken as fatal: the handler leaves before close
HandlerRmWatchAbortsOnError ==
    /\ HandlerAt("rm_watch")
    /\ rmWatchCalls' = rmWatchCalls + 1
    /\ \E closeStatus \in {InvalidFd, 0} :
          /\ (rmWatchCalls > 0 \/ closeCalls > 0) => closeStatus = InvalidFd
          /\ rmWatchErrors' =
                rmWatchErrors + (IF closeStatus = InvalidFd THEN 1 ELSE 0)
          /\ handlerPc' = IF closeStatus = InvalidFd THEN "exit" ELSE "close"
    /\ staleHandleUse' = (staleHandleUse \/ rmWatchCalls > 0 \/ closeCalls > 0)
    /\ ownRmWatchCalls' = ownRmWatchCalls + 1
    /\ UNCHANGED << startupVars, pc, exitStatus, globalVars, sigHandlers,
                    sigBlocked, ownCloseCalls, loopVars, acquireVars,
                    closeCalls >>

\* closeStatus = inotify_rm_watch(IeventQueue, IeventDescriptor), lines 52-55
\* The call fails on a closed queue and on a watch that is no longer
\* registered (removed before, or dropped by the kernel with the file).
HandlerRmWatch ==
    /\ HandlerAt("rm_watch")
    /\ rmWatchCalls' = rmWatchCalls + 1
    /\ \E closeStatus \in {InvalidFd, 0} :
          /\ (rmWatchCalls > 0 \/ closeCalls > 0) => closeStatus = InvalidFd
          /\ rmWatchErrors' =
                rmWatchErrors + (IF closeStatus = InvalidFd THEN 1 ELSE 0)
    /\ staleHandleUse' = (staleHandleUse \/ rmWatchCalls > 0 \/ closeCalls > 0)
    /\ ownRmWatchCalls' = ownRmWatchCalls + 1
    /\ handlerPc' = "close"
    /\ UNCHANGED << startupVars, pc, exitStatus, globalVars, sigHandlers,
                    sigBlocked, ownCloseCalls, loopVars, acquireVars,
                    closeCalls >>

\* close(IeventQueue), line 56
HandlerClose ==
    /\ HandlerAt("close")
    /\ closeCalls' = closeCalls + 1
    /\ staleHandleUse' = (staleHandleUse \/ closeCalls > 0)
    /\ ownCloseCalls' = ownCloseCalls + 1
    /\ handlerPc' = "exit"
    /\ UNCHANGED << startupVars, pc, exitStatus, globalVars, sigHandlers,
                    sigBlocked, ownRmWatchCalls, loopVars, acquireVars,
                    rmWatchCalls, rmWatchErrors >>

\* a handler that returns to the interrupted statement instead of exiting
HandlerReturns ==
    /\ HandlerAt("exit")
    /\ handlerPc' = "none"
    /\ sigBlocked' = {}
    /\ UNCHANGED << startupVars, pc, exitStatus, globalVars, sigHandlers,
                    ownRmWatchCalls, ownCloseCalls, loopVars, acquireVars,
                    releaseVars >>

\* notify_uninit(); exit(EXT_SUCCESS), lines 58-59
HandlerExit ==
    /\ HandlerAt("exit")
    /\ Exit(EXT_SUCCESS)
    /\ UNCHANGED << startupVars, globalVars, sigHandlers, handlerVars,
                    loopVars, acquireVars, releaseVars >>

Next ==
    \/ ArgcCheck
    \/ NotifyInit
    \/ InotifyInit
    \/ InotifyStore
    \/ AddWatch
    \/ AddWatchStore
    \/ SignalAbrt
    \/ SignalInt
    \/ SignalTerm
    \/ BasePath
    \/ ReadRecords
    \/ ReadTruncated
    \/ ReadFails
    \/ ExitCall
    \/ WalkDone
    \/ ClassifyRecord
    \/ NotifyNew
    \/ NullHandle
    \/ NotifyShow
    \/ ForIncrement
    \/ Signal
    \/ HandlerRmWatch
    \/ HandlerClose
    \/ HandlerExit

Spec == Init /\ [][Next]_vars

(***************************************************************************)
(* The runs in which no termination signal arrives, over more records.     *)
(***************************************************************************)
LoopNext ==
    \/ ArgcCheck
    \/ NotifyInit
    \/ InotifyInit
    \/ InotifyStore
    \/ AddWatch
    \/ AddWatchStore
    \/ SignalAbrt
    \/ SignalInt
    \/ SignalTerm
    \/ BasePath
    \/ ReadManyRecords
    \/ ReadManyTruncated
    \/ ReadFails
    \/ ExitCall
    \/ WalkDone
    \/ ClassifyRecord
    \/ NotifyNew
    \/ NullHandle
    \/ NotifyShow
    \/ ForIncrement

LoopSpec == Init /\ [][LoopNext]_vars

\* the statements between two reads: the one thread of the program goes
\* through them, as long as the calls into libnotify and the writes to stdout
\* and stderr return; the read itself may block for ever
LoopBody ==
    \/ WalkDone
    \/ ClassifyRecord
    \/ NotifyNew
    \/ NullHandle
    \/ NotifyShow
    \/ ForIncrement

\* the runs without a termination signal over the reads of Spec
FairNext ==
    \/ ArgcCheck
    \/ NotifyInit
    \/ InotifyInit
    \/ InotifyStore
    \/ AddWatch
    \/ AddWatchStore
    \/ SignalAbrt
    \/ SignalInt
    \/ SignalTerm
    \/ BasePath
    \/ ReadRecords
    \/ ReadTruncated
    \/ ReadFails
    \/ ExitCall
    \/ WalkDone
    \/ ClassifyRecord
    \/ NotifyNew
    \/ NullHandle
    \/ NotifyShow
    \/ ForIncrement

LoopFairSpec == Init /\ [][FairNext]_vars /\ WF_vars(LoopBody)

(***************************************************************************)
(* The loop body on one record of any event mask: the state after a read   *)
(* that returned that record.                                              *)
(***************************************************************************)
ClassifyInit ==
    /\ argc = 2
    /\ argv1 \in Paths
    /\ pc = "walk"
    /\ exitStatus = Running
    /\ IeventQueue = QueueFd
    /\ IeventDescriptor = WatchWd
    /\ sigHandlers = Signals
    /\ sigBlocked = {}
    /\ handlerPc = "none"
    /\ ownRmWatchCalls = 0
    /\ ownCloseCalls = 0
    /\ basePath = BasePathOf(argv1)
    /\ buffer \in [1..1 -> Records(AllMasks)]
    /\ readLength = TotalSize(buffer)
    /\ buffPointer = 0
    /\ watchEvent = NoEvent
    /\ notificationMessage = NULL
    /\ recordsVisited = 0
    /\ sinkCalls = <<>>
    /\ sinkFailures = 0
    /\ callResult = WatchWd
    /\ notifyInitCalls = 1
    /\ inotifyInitCalls = 1
    /\ addWatchCalls = 1
    /\ rmWatchCalls = 0
    /\ rmWatchErrors = 0
    /\ closeCalls = 0
    /\ staleHandleUse = FALSE

ClassifyNext ==
    \/ ClassifyRecord
    \/ NotifyNew
    \/ NullHandle
    \/ NotifyShow
    \/ ForIncrement
    \/ WalkDone

ClassifySpec == ClassifyInit /\ [][ClassifyNext]_vars

(***************************************************************************)
(* The display-name step alone, lines 117-129, on every path of up to      *)
(* MaxPathLen characters: the state after the three signal() calls.        *)
(***************************************************************************)
PathChars == {"/", "a", "b", "c"}

AllPaths == UNION { [1..n -> PathChars] : n \in 0..MaxPathLen }

PathInit ==
    /\ argc = 2
    /\ argv1 \in AllPaths
    /\ pc = "base_path"
    /\ exitStatus = Running
    /\ IeventQueue = QueueFd
    /\ IeventDescriptor = WatchWd
    /\ sigHandlers = Signals
    /\ sigBlocked = {}
    /\ handlerPc = "none"
    /\ ownRmWatchCalls = 0
    /\ ownCloseCalls = 0
    /\ basePath = NullPath
    /\ buffer = <<>>
    /\ readLength = 0
    /\ buffPointer = 0
    /\ watchEvent = NoEvent
    /\ notificationMessage = NULL
    /\ recordsVisited = 0
    /\ sinkCalls = <<>>
    /\ sinkFailures = 0
    /\ callResult = WatchWd
    /\ notifyInitCalls = 1
    /\ inotifyInitCalls = 1
    /\ addWatchCalls = 1
    /\ rmWatchCalls = 0
    /\ rmWatchErrors = 0
    /\ closeCalls = 0
    /\ staleHandleUse = FALSE

PathNext == BasePath

PathSpec == PathInit /\ [][PathNext]_vars

(***************************************************************************)
(* Vocabulary of the properties.                                           *)
(***************************************************************************)
\* the categories in the order of the if statements, and their messages
CategoryOrder ==
    << IN_CREATE, IN_DELETE, IN_ACCESS, IN_CLOSE_WRITE, IN_MODIFY, IN_MOVE_SELF >>

CategoryMessage ==
    << "File created.\n", "File deleted.\n", "File accessed.\n",
       "File written and closed.\n", "File modified.\n", "File moved.\n" >>

HasBit(mask, bit) == (mask \div bit) % 2 = 1

\* the positions in CategoryOrder of the recognized bits set in mask
MatchingRanks(mask) == { i \in 1..Len(CategoryOrder) : HasBit(mask, CategoryOrder[i]) }

Recognized(mask) == MatchingRanks(mask) # {}

FirstMatchMessage(mask) ==
    CategoryMessage[CHOOSE i \in MatchingRanks(mask) :
                        \A j \in MatchingRanks(mask) : i <= j]

LastMatchMessage(mask) ==
    CategoryMessage[CHOOSE i \in MatchingRanks(mask) :
                        \A j \in MatchingRanks(mask) : j <= i]

\* the offsets at which a record of the chain starts or the chain ends
Boundaries(records) == { OffsetOf(records, i) : i \in 1..(Len(records) + 1) }

\* the last read returned whole records
WholeRecords == readLength = TotalSize(buffer)

\* the last read returned a length that cuts a record short
CutShort == readLength >= 0 /\ readLength \notin Boundaries(buffer)

\* main is at the calls to the sink, with a message for the record
AtSink == pc \in {"notify_new", "null_handle", "notify_show"}

\* main is in the loop body or at the increment that follows it: past the
\* dereference of the header at the cursor, the cursor still on the record
InBody == AtSink \/ pc = "advance"

\* the for statement has ended, or is about to
WalkEnded == pc = "read" \/ (pc = "walk" /\ ~Inside(buffPointer, readLength))

\* the notifications a chain of records calls for, in order
RECURSIVE ExpectedCalls(_, _)
ExpectedCalls(records, title) ==
    IF records = <<>> THEN <<>>
    ELSE LET first == Head(records)
             rest  == ExpectedCalls(Tail(records), title)
         IN  IF Recognized(first.mask)
             THEN << [title |-> title, message |-> LastMatchMessage(first.mask)] >>
                  \o rest
             ELSE rest

\* a termination signal has been delivered to the process
SignalDelivered ==
    sigBlocked # {} \/ exitStatus \in { Killed + sig : sig \in Signals }

(***************************************************************************)
(* C1: with two or more recognized bits set, the message is the one of the *)
(* first set bit in the order Created, Deleted, Accessed,                  *)
(* WrittenAndClosed, Modified, MovedSelf.  The code gives the one of the   *)
(* last set bit: Created + Modified is notified as "File modified.".       *)
(***************************************************************************)
C1_FirstMatchWins ==
    (recordsVisited = 1 /\ Cardinality(MatchingRanks(watchEvent.mask)) >= 2)
        => notificationMessage = FirstMatchMessage(watchEvent.mask)

(***************************************************************************)
(* C2: over any interleaving of signal deliveries, inotify_rm_watch and    *)
(* close are each called at most once, and never on a released handle.     *)
(***************************************************************************)
C2_TeardownOnce ==
    /\ rmWatchCalls <= 1
    /\ closeCalls <= 1
    /\ ~staleHandleUse

(***************************************************************************)
(* C3: every record header the walk dereferences lies entirely within      *)
(* [0, readLength).                                                        *)
(***************************************************************************)
C3_HeaderWithinLength ==
    InBody => buffPointer + HeaderSize <= readLength

(***************************************************************************)
(* C4: when the last record of a read is cut short, decoding is fatal: the *)
(* cut record is not notified and the loop does not go on to another read. *)
(***************************************************************************)
C4_TruncationIsFatal ==
    CutShort => /\ pc # "read"
                /\ recordsVisited = Len(buffer) => ~InBody

(***************************************************************************)
(* C5: on a read of K whole records the walk visits exactly K records,     *)
(* the cursor stands at the start of the next record after each, never     *)
(* passes readLength, and equals readLength when the walk ends.            *)
(***************************************************************************)
C5_WalkVisitsEachRecord ==
    (WholeRecords /\ pc # "exited") =>
        LET passed == IF InBody THEN recordsVisited - 1 ELSE recordsVisited
        IN  /\ recordsVisited <= Len(buffer)
            /\ buffPointer = OffsetOf(buffer, passed + 1)
            /\ buffPointer <= readLength
            /\ WalkEnded => /\ recordsVisited = Len(buffer)
                            /\ buffPointer = readLength

\* two whole records, the first with a name, have been walked to the end
C5_Witness ==
    /\ pc = "read"
    /\ Len(buffer) = 2
    /\ buffer[1].len = HeaderSize
    /\ buffer[2].len = 0
    /\ WholeRecords
    /\ recordsVisited = 2
    /\ buffPointer = 3 * HeaderSize

(***************************************************************************)
(* C6: once inotify_add_watch has succeeded, a process that a termination  *)
(* signal has reached exits only after inotify_rm_watch and close.         *)
(***************************************************************************)
C6_SignalAlwaysReleases ==
    (pc = "exited" /\ IeventDescriptor = WatchWd /\ SignalDelivered)
        => (rmWatchCalls >= 1 /\ closeCalls >= 1)

(***************************************************************************)
(* C7: a process that exits with the read-failure status has released the  *)
(* watch and the queue, and has decoded and notified nothing for that read.*)
(***************************************************************************)
C7_ReadFailureReleases ==
    (pc = "exited" /\ exitStatus = EXT_ERR_READ_INOTIFY)
        => (rmWatchCalls >= 1 /\ closeCalls >= 1)

(***************************************************************************)
(* C8: on a read of whole records the sink calls made so far are exactly   *)
(* one per recognized record passed, in record order, each with the title  *)
(* computed before the loop.                                               *)
(***************************************************************************)
C8_OneCallPerRecognizedRecord ==
    (WholeRecords /\ pc # "exited") =>
        LET forwarded == IF pc = "notify_new" THEN recordsVisited - 1
                         ELSE recordsVisited
        IN  sinkCalls = ExpectedCalls(SubSeq(buffer, 1, forwarded), basePath)

\* the buffer [Created, Deleted] has produced its two notifications in order
C8_Witness ==
    /\ pc = "read"
    /\ WholeRecords
    /\ Len(buffer) = 2
    /\ buffer[1].mask = IN_CREATE
    /\ buffer[2].mask = IN_DELETE
    /\ argv1 = <<"/", "a", "/", "b">>
    /\ sinkCalls = << [title |-> <<"b">>, message |-> "File created.\n"],
                      [title |-> <<"b">>, message |-> "File deleted.\n"] >>

(***************************************************************************)
(* C9: a record with none of the six recognized bits is never handed to    *)
(* the sink: the step that classifies it leaves the message NULL and goes  *)
(* to the increment of the for statement, which moves the cursor past the  *)
(* record (past the bytes read when its len is stale) and goes back to the *)
(* test of the walk.  The mask is one that read wrote: of a stale mask the *)
(* bits are not known.                                                     *)
(***************************************************************************)
C9_IgnoredIsSkipped ==
    /\ []((AtSink /\ watchEvent.mask # StaleMask)
             => Recognized(watchEvent.mask))
    /\ [][ (recordsVisited' = recordsVisited + 1
               /\ watchEvent'.mask # StaleMask
               /\ ~Recognized(watchEvent'.mask))
           => /\ notificationMessage' = NULL
              /\ pc' = "advance"
              /\ buffPointer' = buffPointer
              /\ sinkCalls' = sinkCalls ]_vars
    /\ [][ (pc = "advance" /\ notificationMessage = NULL /\ pc' # pc)
           => /\ pc' = "walk"
              /\ sinkCalls' = sinkCalls
              /\ watchEvent.len # StaleLen
                    => buffPointer' = buffPointer + HeaderSize + watchEvent.len
              /\ watchEvent.len = StaleLen
                    => ~Inside(buffPointer', readLength) ]_vars

\* an ignored record was skipped and the record after it was notified
C9_Witness ==
    /\ pc = "read"
    /\ WholeRecords
    /\ Len(buffer) = 2
    /\ buffer[1].mask = IN_IGNORED
    /\ buffer[2].mask = IN_MODIFY
    /\ recordsVisited = 2
    /\ Len(sinkCalls) = 1
    /\ sinkCalls[1].message = "File modified.\n"

(***************************************************************************)
(* C10: a step in which a sink call fails ends nothing and changes no      *)
(* handle: it goes to the report of the null handle or to the increment of *)
(* the for statement; the report goes to the increment, and the increment  *)
(* after a sink call moves the cursor past the record and goes back to the *)
(* test of the walk.  A walk of whole records in which sink calls failed   *)
(* still ends at the next read with every recognized record handed to the  *)
(* sink.                                                                   *)
(***************************************************************************)
C10_SinkFailureContinues ==
    /\ []((WholeRecords /\ pc = "read" /\ sinkFailures > 0)
             => Len(sinkCalls) = Len(ExpectedCalls(buffer, basePath)))
    /\ [][ sinkFailures' > sinkFailures
           => /\ pc' \in {"null_handle", "advance"}
              /\ exitStatus' = Running
              /\ UNCHANGED << IeventQueue, IeventDescriptor, sigHandlers,
                              basePath, buffer, readLength, buffPointer >> ]_vars
    /\ [][ (pc = "null_handle" /\ pc' # pc)
           => /\ pc' = "advance"
              /\ exitStatus' = Running
              /\ UNCHANGED << IeventQueue, IeventDescriptor, sigHandlers,
                              basePath, buffer, readLength, buffPointer,
                              sinkCalls, sinkFailures >> ]_vars
    /\ [][ (pc = "advance" /\ notificationMessage # NULL /\ pc' # pc)
           => /\ pc' = "walk"
              /\ exitStatus' = Running
              /\ buffPointer' = PastRead
                    \/ buffPointer' = buffPointer + HeaderSize + watchEvent.len
              /\ UNCHANGED << IeventQueue, IeventDescriptor, sigHandlers,
                              basePath, buffer, readLength, sinkCalls,
                              sinkFailures >> ]_vars

\* both sink calls of a two-record buffer failed, and main is at the read
C10_Witness ==
    /\ pc = "read"
    /\ WholeRecords
    /\ Len(buffer) = 2
    /\ sinkFailures = 2
    /\ Len(sinkCalls) = 2

(***************************************************************************)
(* C11: an invocation of the handler calls inotify_rm_watch once, then     *)
(* close once, then exits with status 0; an error of inotify_rm_watch      *)
(* changes nothing of this: the call is not repeated and close and exit    *)
(* follow.  The only other way out of a running handler is the default     *)
(* action of a signal that has no handler yet (a status above Killed).     *)
(***************************************************************************)
C11_HandlerReleasesOnceAndExits ==
    /\ [](/\ ownRmWatchCalls <= 1
          /\ ownCloseCalls <= ownRmWatchCalls
          /\ (pc = "exited" /\ exitStatus = EXT_SUCCESS)
                => (ownRmWatchCalls = 1 /\ ownCloseCalls = 1))
    /\ [][ rmWatchCalls' # rmWatchCalls
           => /\ handlerPc = "rm_watch"
              /\ rmWatchCalls' = rmWatchCalls + 1
              /\ rmWatchErrors' \in {rmWatchErrors, rmWatchErrors + 1}
              /\ handlerPc' = "close"
              /\ exitStatus' = Running ]_vars
    /\ [][ closeCalls' # closeCalls
           => /\ handlerPc = "close"
              /\ closeCalls' = closeCalls + 1
              /\ handlerPc' = "exit"
              /\ exitStatus' = Running ]_vars
    /\ [][ (handlerPc # "none" /\ pc' = "exited" /\ exitStatus' < Killed)
           => /\ handlerPc = "exit"
              /\ exitStatus' = EXT_SUCCESS
              /\ UNCHANGED releaseVars ]_vars

\* inotify_rm_watch reported an error, and the handler closed the queue once
\* and exited with status 0
C11_Witness ==
    /\ pc = "exited"
    /\ exitStatus = EXT_SUCCESS
    /\ rmWatchCalls = 1
    /\ rmWatchErrors = 1
    /\ closeCalls = 1

(***************************************************************************)
(* C12: a run started without a path argument (argc < 2) goes from the     *)
(* argument test to the usage error path and exits with status 1:          *)
(* notify_init, inotify_init and inotify_add_watch are never called, no    *)
(* handle is stored and no signal handler is registered.  The process may  *)
(* be ended by a signal before exit(1) has completed; no other end is      *)
(* possible.                                                               *)
(***************************************************************************)
C12_TooFewArgsAcquiresNothing ==
    argc < 2 =>
        /\ pc \in {"argc_check", "exit_usage", "exited"}
        /\ notifyInitCalls = 0
        /\ inotifyInitCalls = 0
        /\ addWatchCalls = 0
        /\ IeventQueue = InvalidFd
        /\ IeventDescriptor = InvalidFd
        /\ sigHandlers = {}
        /\ handlerPc = "none"
        /\ rmWatchCalls = 0 /\ closeCalls = 0
        /\ (pc = "exited" /\ ~SignalDelivered)
              => exitStatus = EXT_ERR_TOO_FEW_ARGS

\* the run without an argument has exited with the usage status
C12_Witness ==
    /\ argc < 2
    /\ pc = "exited"
    /\ exitStatus = EXT_ERR_TOO_FEW_ARGS
    /\ notifyInitCalls = 0

\* the statements of main before the watch is registered and stored
BeforeWatch ==
    { "argc_check", "exit_usage", "notify_init", "exit_libnotify",
      "inotify_init", "inotify_store", "exit_inotify", "add_watch",
      "add_watch_store", "exit_watch" }

\* the exit statuses of the program
ExitStatuses ==
    << EXT_SUCCESS, EXT_ERR_TOO_FEW_ARGS, EXT_ERR_INIT_INOTIFY,
       EXT_ERR_ADD_WATCH, EXT_ERR_BASE_PATH_NULL, EXT_ERR_READ_INOTIFY,
       EXT_ERR_INIT_LIBNOTIFY >>

\* nothing of the loop has happened: nothing read, no record visited, no call
\* to the sink
LoopUntouched ==
    /\ buffer = <<>>
    /\ readLength = 0
    /\ recordsVisited = 0
    /\ sinkCalls = <<>>
    /\ sinkFailures = 0

\* inotify_init has returned -1, inotify_add_watch has returned -1
QueueFailed == inotifyInitCalls = 1 /\ addWatchCalls = 0 /\ callResult = InvalidFd
WatchFailed == addWatchCalls = 1 /\ callResult = InvalidFd

(***************************************************************************)
(* C13: after inotify_init or inotify_add_watch has returned -1 main only  *)
(* stores the value and takes the error path: the process ends with status *)
(* 2 for the queue and 3 for the watch, unless a signal ends it first (no  *)
(* handler is installed yet).  2 and 3 are non-zero and no two exit        *)
(* statuses of the program are equal.  As long as no watch is stored main  *)
(* is before the loop or has ended, nothing has been read and the sink has *)
(* not been called.                                                        *)
(***************************************************************************)
C13_AcquisitionFailureIsFatal ==
    /\ EXT_ERR_INIT_INOTIFY = 2 /\ EXT_ERR_ADD_WATCH = 3
    /\ \A i, j \in DOMAIN ExitStatuses :
          i # j => ExitStatuses[i] # ExitStatuses[j]
    /\ QueueFailed
          => /\ pc \in {"inotify_store", "exit_inotify", "exited"}
             /\ IeventQueue = InvalidFd
             /\ (pc = "exited" /\ ~SignalDelivered)
                   => exitStatus = EXT_ERR_INIT_INOTIFY
    /\ WatchFailed
          => /\ pc \in {"add_watch_store", "exit_watch", "exited"}
             /\ IeventDescriptor = InvalidFd
             /\ (pc = "exited" /\ ~SignalDelivered)
                   => exitStatus = EXT_ERR_ADD_WATCH
    /\ exitStatus = EXT_ERR_INIT_INOTIFY => QueueFailed
    /\ exitStatus = EXT_ERR_ADD_WATCH
          => (WatchFailed /\ IeventQueue = QueueFd)
    /\ IeventDescriptor = InvalidFd
          => (pc \in BeforeWatch \cup {"exited"} /\ LoopUntouched
                /\ sigHandlers = {})

\* the queue was created, the registration failed and the process has exited
\* with status 3
C13_Witness ==
    /\ pc = "exited"
    /\ exitStatus = EXT_ERR_ADD_WATCH
    /\ IeventQueue = QueueFd
    /\ IeventDescriptor = InvalidFd
    /\ LoopUntouched

\* the positions of the separators of a path
SlashAt(path) == { i \in 1..Len(path) : path[i] = "/" }

\* the substring after the last separator, the whole path when it has none
AfterLastSlash(path) ==
    IF SlashAt(path) = {} THEN path
    ELSE LET k == CHOOSE i \in SlashAt(path) : \A j \in SlashAt(path) : j <= i
         IN  SubSeq(path, k + 1, Len(path))

EndsInSlash(path) == path # <<>> /\ path[Len(path)] = "/"

(***************************************************************************)
(* C14: once the display-name step has produced a name from a path that    *)
(* does not end in a separator, main is at the loop and basePath is the    *)
(* substring of the path after its last '/', the whole path when it has no *)
(* '/'.  The step produces no name only when malloc has failed and the     *)
(* process has been ended by SIGSEGV.                                      *)
(***************************************************************************)
C14_NameIsAfterLastSlash ==
    (pc # "base_path" /\ ~EndsInSlash(argv1))
        => \/ pc = "read" /\ basePath = AfterLastSlash(argv1)
           \/ /\ pc = "exited"
              /\ exitStatus = Killed + SIGSEGV
              /\ basePath = NullPath

\* /a/b/c has given c
C14_Witness ==
    /\ pc = "read"
    /\ argv1 = << "/", "a", "/", "b", "/", "c" >>
    /\ basePath = << "c" >>

\* the positions of the characters of a path that are not separators
NameAt(path) == { i \in 1..Len(path) : path[i] # "/" }

\* the path without the separators at its end
Trimmed(path) ==
    IF NameAt(path) = {} THEN <<>>
    ELSE LET k == CHOOSE i \in NameAt(path) : \A j \in NameAt(path) : j <= i
         IN  SubSeq(path, 1, k)

\* the last non-empty segment of a path that has one
LastSegment(path) == AfterLastSlash(Trimmed(path))

(***************************************************************************)
(* C19: the display-name step never takes the error path of status 4.     *)
(* Main enters the loop with a basePath that is not NULL: for a path with  *)
(* a character other than '/', trailing separators included, the last      *)
(* non-empty segment; for a path of separators only the whole path         *)
(* unchanged.  The loop is not entered only when malloc has failed and the *)
(* process has been ended by SIGSEGV.                                      *)
(***************************************************************************)
C19_NameStepNeverFails ==
    /\ exitStatus # EXT_ERR_BASE_PATH_NULL
    /\ pc # "exit_base"
    /\ pc = "read"
          => /\ exitStatus = Running
             /\ basePath # NullPath
             /\ NameAt(argv1) # {} => basePath = LastSegment(argv1)
             /\ NameAt(argv1) = {} => basePath = argv1
    /\ pc \notin {"base_path", "read"}
          => /\ pc = "exited"
             /\ exitStatus = Killed + SIGSEGV
             /\ basePath = NullPath

\* /a/b/ has given b
C19_Witness ==
    /\ pc = "read"
    /\ argv1 = << "/", "a", "/", "b", "/" >>
    /\ basePath = << "b" >>

\* the statements of the daemon loop
LoopLabels ==
    {"read", "walk", "notify_new", "null_handle", "notify_show", "advance"}

(***************************************************************************)
(* C15: inotify_init and inotify_add_watch are each called at most once in *)
(* a run; in the loop each has been called exactly once and the two        *)
(* handles are the ones stored at startup, and no step changes a handle    *)
(* once it is valid.                                                       *)
(***************************************************************************)
C15_WatchCreatedOnce ==
    /\ [](/\ inotifyInitCalls <= 1
          /\ addWatchCalls <= 1
          /\ pc \in LoopLabels
                => /\ inotifyInitCalls = 1 /\ addWatchCalls = 1
                   /\ IeventQueue = QueueFd /\ IeventDescriptor = WatchWd)
    /\ [][ /\ IeventQueue # InvalidFd => IeventQueue' = IeventQueue
           /\ IeventDescriptor # InvalidFd
                 => IeventDescriptor' = IeventDescriptor ]_vars

\* a walk has ended and main is back at the read, after one call of each
C15_Witness ==
    /\ pc = "read"
    /\ recordsVisited > 0
    /\ inotifyInitCalls = 1
    /\ addWatchCalls = 1

(***************************************************************************)
(* C16: in the runs without a termination signal the only way out of the   *)
(* loop is the error path taken at the read, when the read has returned    *)
(* -1, which ends in the exit with status 5; and after every read that     *)
(* returned, of no byte, of ignored records only or of any records, the    *)
(* walk ends and main is at the read again.                                *)
(***************************************************************************)
C16_LoopOnlyEndsOnReadFailure ==
    /\ [][ (pc \in LoopLabels /\ pc' \notin LoopLabels)
           => /\ pc = "read"
              /\ pc' = "exit_read"
              /\ readLength' = InvalidFd
              /\ exitStatus' = Running ]_vars
    /\ [][ (pc # "exited" /\ pc' = "exited" /\ addWatchCalls = 1
              /\ IeventDescriptor = WatchWd /\ exitStatus' < Killed)
           => /\ pc = "exit_read"
              /\ exitStatus' = EXT_ERR_READ_INOTIFY ]_vars
    /\ [](pc \in LoopLabels \ {"read"} => <>(pc = "read"))

\* a read returned ignored records only, and main is back at the read
\* without a call to the sink
C16_Witness ==
    /\ pc = "read"
    /\ buffer # <<>>
    /\ \A i \in DOMAIN buffer : buffer[i].mask = IN_IGNORED
    /\ readLength = TotalSize(buffer)
    /\ recordsVisited = Len(buffer)
    /\ sinkCalls = <<>>

(***************************************************************************)
(* C17: whenever a handler is installed, and so whenever the handler runs  *)
(* or has called inotify_rm_watch or close, IeventQueue and                *)
(* IeventDescriptor are both different from -1: the handler is never       *)
(* entered while main is still before the registration of the watch.       *)
(***************************************************************************)
C17_HandlerSeesStoredHandles ==
    (sigHandlers # {} \/ handlerPc # "none" \/ rmWatchCalls > 0
        \/ closeCalls > 0)
        => /\ IeventQueue # InvalidFd
           /\ IeventDescriptor # InvalidFd
           /\ pc \notin BeforeWatch
           /\ inotifyInitCalls = 1 /\ addWatchCalls = 1

\* the handler has been entered at the earliest point, right after the first
\* signal() call, and both handles are stored
C17_Witness ==
    /\ pc = "signal_int"
    /\ handlerPc = "rm_watch"
    /\ sigHandlers = {SIGABRT}
    /\ IeventQueue = QueueFd
    /\ IeventDescriptor = WatchWd

(***************************************************************************)
(* C18: once the handler has been entered main takes no further step: the  *)
(* handler never returns, no read is issued, no record is visited and the  *)
(* sink is not called, at whatever statement main was interrupted; the     *)
(* only change of main is the end of the process.  So after the close of   *)
(* the queue descriptor a handler is still running or the process has      *)
(* ended.                                                                  *)
(***************************************************************************)
C18_MainNeverResumes ==
    /\ [][ handlerPc # "none"
           => /\ handlerPc' # "none"
              /\ pc' = pc \/ pc' = "exited"
              /\ UNCHANGED << startupVars, globalVars, sigHandlers, loopVars,
                              acquireVars >> ]_vars
    /\ [](closeCalls > 0 => (handlerPc # "none" /\ sigBlocked # {}))

\* main was interrupted after it had classified a record and before
\* notify_notification_new; the queue has been closed and the sink has not
\* been called
C18_Witness ==
    /\ pc = "notify_new"
    /\ notificationMessage # NULL
    /\ handlerPc = "exit"
    /\ closeCalls = 1
    /\ sinkCalls = <<>>

====
